---------------------------- MODULE Spec2Model ----------------------------
(***************************************************************************)
(* Model of the DB_SALES feed of the sales data warehouse                  *)
(* (src/src/db_mssql.py): reconciliation of credit notes with invoice      *)
(* lines, netting, and the load of dw.FACT_SALES.                          *)
(*                                                                         *)
(* Numbers.  pandas holds Quantity and LineTotal as floats and the code    *)
(* compares them with tolerances (1e-6, 1e-9, 1e-4).  The model keeps      *)
(* them as integers on a grid fine enough for every tolerance to be        *)
(* several grid steps wide:                                                *)
(*     Quantity  in units of 5e-10   (1e-6 = 2000 units, 1e-9 = 2 units)   *)
(*     LineTotal in units of 5e-7    (1e-4 =  200 units, 1e-6 = 2 units)   *)
(* so values that differ by less than a tolerance exist in the model.      *)
(***************************************************************************)
EXTENDS Integers, Sequences, FiniteSets, TLC

VARIABLES
    \* ---- extract_source_data / _resolve_credit_base_documents
    df_sales,            \* invoice lines read from OINV/INV1
    df_credits,          \* credit-note lines read from ORIN/RIN1
    base_refs_available, \* does RIN1 expose BaseEntry/BaseLine
    tieRank,             \* the order sort_values leaves equal DocDates in
    remaining_qty,       \* work_invoices['remaining_qty'], by position
    work_credits,        \* df_credits with the Base* columns being filled
    idx,                 \* position of the loop over work_credits
    epc,                 \* where extract_source_data stands
    sales_fact,          \* source_data['sales_fact']
    \* ---- source master data and the warehouse
    src_customers,       \* OCRD rows with CardType 'C'
    src_products,        \* OITM rows
    dim_customers,       \* dw.DIM_CUSTOMERS
    dim_products,        \* dw.DIM_PRODUCTS
    fact,                \* dw.FACT_SALES, committed rows
    pending,             \* rows inserted in the open transaction
    constraints,         \* are the constraints of dw.FACT_SALES checked
    \* ---- run_etl / load_fact_sales
    pc,                  \* where run_etl stands
    runs,                \* runs of run_etl that have ended
    dim_dfs,             \* the lookup frames load_dimensions returned
    batch,               \* df_fact_final / data_to_insert
    row_i,               \* position of the per-row loop
    failed_rows,         \* positions of the rows that failed
    success_count,
    statements,          \* what this call sent to the warehouse, in order
    exc,                 \* the exception in flight / raised to run_etl
    outcome,             \* how the insert phase of this call went
    \* ---- history, for the properties
    fact_before,         \* dw.FACT_SALES when load_fact_sales was entered
    constraints_before,  \* constraints when load_fact_sales was entered
    loaded,              \* how the previous run ended and the DB_SALES rows it left
    \* ---- process_and_load_dim on one dimension, call after call
    dim_table,           \* the dimension table: rows and next IDENTITY value
    dim_kind,            \* dtype of the source key column: "text" or "number"
    dim_ci,              \* is the collation of the key column case-insensitive
    dim_source,          \* df_source of the next call
    dim_calls,           \* calls that have ended
    dim_last,            \* the last call: its source, table before, outcome
    dim_prev,            \* the call before the last one
    \* ---- two runs of load_fact_sales on one warehouse
    race_pc,             \* where each of the two runs stands
    race_batch,          \* the batch of each run
    race_last            \* the run whose insert committed last

extractVars == <<df_sales, df_credits, base_refs_available, tieRank,
                 remaining_qty, work_credits, idx, epc, sales_fact>>

sourceVars == <<df_sales, df_credits, base_refs_available, tieRank,
                src_customers, src_products>>

dwVars == <<dim_customers, dim_products, fact, pending, constraints>>

runVars == <<pc, runs, dim_dfs, batch, row_i, failed_rows, success_count,
             statements, exc, outcome>>

histVars == <<fact_before, constraints_before, loaded>>

dimVars == <<dim_table, dim_kind, dim_ci, dim_source, dim_calls, dim_last, dim_prev>>
raceVars == <<race_pc, race_batch, race_last>>
sideVars == <<dimVars, raceVars>>
vars == <<extractVars, src_customers, src_products, dwVars, runVars, histVars, sideVars>>

-----------------------------------------------------------------------------
(* Bounds of the model *)

MaxSales == 2
MaxCredits == 2

-----------------------------------------------------------------------------
(* Values *)

NullInt == -999999                 \* NaN / NULL in a numeric column
NaT == <<0, 0, 0>>                 \* missing date

Abs(x) == IF x < 0 THEN -x ELSE x
Max(a, b) == IF a >= b THEN a ELSE b

RECURSIVE SumSeq(_)
SumSeq(s) == IF s = <<>> THEN 0 ELSE Head(s) + SumSeq(Tail(s))

DateLE(a, b) ==
    \/ a[1] < b[1]
    \/ a[1] = b[1] /\ a[2] < b[2]
    \/ a[1] = b[1] /\ a[2] = b[2] /\ a[3] <= b[3]

DateLT(a, b) == DateLE(a, b) /\ a # b

\* tolerances of _resolve_credit_base_documents, on the model's grids
QtyTol == 2000                     \* qty_tol = 1e-6, in units of 5e-10
PriceTolAmt == 200                 \* price_tol = 1e-4 as an amount, in units of 5e-7
\* zero tests of the netting step
QtyZeroEps == 2                    \* 1e-9, in units of 5e-10
AmtZeroEps == 2                    \* 1e-6, in units of 5e-7

-----------------------------------------------------------------------------
(* Source rows.  The SELECT lists of sales_query and of the credit query. *)

Line(date, card, slp, docnum, docentry, linenum, item, qty, total, cur, be, bl, tt) ==
    [DocDate |-> date, CardCode |-> card, SlpCode |-> slp, DocNum |-> docnum,
     DocEntry |-> docentry, LineNum |-> linenum, ItemCode |-> item,
     Quantity |-> qty, LineTotal |-> total, DocCur |-> cur,
     BaseDocEntry |-> be, BaseLine |-> bl, BaseDocNum |-> NullInt,
     BaseDocDate |-> NaT, TransactionType |-> tt]

D0 == <<2023, 12, 20>>
D1 == <<2024, 1, 5>>
D2 == <<2024, 1, 10>>
D3 == <<2024, 2, 1>>

\* invoice lines (OINV x INV1): DocEntry/LineNum identify a line
SalePool ==
    { Line(D1, "C1", 1, 101, 1, 0, "I1", 4000, 40000, "USD", NullInt, NullInt, "INVOICE"),
      Line(D1, "C1", 1, 102, 2, 0, "I1", 8000, 80000, "USD", NullInt, NullInt, "INVOICE"),
      Line(D3, "C1", 1, 103, 3, 0, "I1", 4000, 40000, "USD", NullInt, NullInt, "INVOICE"),
      Line(D1, "C1", 2, 104, 4, 0, "I1", 4000, 40000, "USD", NullInt, NullInt, "INVOICE"),
      Line(D1, "C1", 1, 105, 5, 1, "I2", 4000, 40000, "USD", NullInt, NullInt, "INVOICE"),
      Line(D0, "C1", 1, 106, 6, 0, "I1", 4000, 40004, "USD", NullInt, NullInt, "INVOICE"),
      Line(D1, "C2", 1, 107, 7, 0, "I1", 4000, 40000, "USD", NullInt, NullInt, "INVOICE") }

\* credit-note lines (ORIN x RIN1), Quantity and LineTotal already times -1;
\* BaseDocEntry/BaseLine hold RIN1.BaseEntry/BaseLine, read only when the
\* columns exist
CreditPool ==
    { Line(D2, "C1", 1, 201, 1, 0, "I1", -4000, -40000, "USD", 1, 0, "CREDIT_NOTE"),
      Line(D2, "C1", NullInt, 207, 7, 0, "I1", -3000, -30000, "USD", NullInt, NullInt, "CREDIT_NOTE"),
      Line(D2, "C1", 1, 208, 8, 0, "I1", -4001, -40010, "USD", NullInt, NullInt, "CREDIT_NOTE"),
      Line(D2, "C1", 1, 209, 9, 0, "I1", -2000, -20000, "USD", NullInt, NullInt, "CREDIT_NOTE"),
      Line(D2, "C1", 1, 210, 10, 0, "I1", -4000, -50000, "USD", NullInt, NullInt, "CREDIT_NOTE"),
      Line(D2, "C1", NullInt, 211, 11, 0, "I1", -4000, -40000, "USD", 2, 0, "CREDIT_NOTE"),
      Line(D0, "C1", 1, 212, 12, 0, "I1", -3000, -30000, "USD", NullInt, NullInt, "CREDIT_NOTE"),
      Line(D2, "C1", 1, 213, 13, 0, "I1", -8000, -80000, "USD", NullInt, NullInt, "CREDIT_NOTE") }

\* the result sets a query can return: rows of the pool, each at most once
SeqsNoDup(S, n) ==
    UNION { { s \in [1..k -> S] : \A i, j \in 1..k : i # j => s[i] # s[j] } : k \in 0..n }

\* the same, in the order of DocEntry; the order in which the rows arrive only
\* matters to how a sort leaves equal dates, which tieRank stands for
SeqsByDocEntry(S, n) ==
    { s \in SeqsNoDup(S, n) :
        \A i, j \in DOMAIN s : i < j => s[i].DocEntry < s[j].DocEntry }

Perms(n) == { p \in [1..n -> 1..n] : \A i, j \in 1..n : i # j => p[i] # p[j] }


-----------------------------------------------------------------------------
(* _resolve_credit_base_documents *)

\* credit_query_base: BaseDocNum/BaseDocDate come from the LEFT JOIN with the
\* invoice header whose DocEntry is RIN1.BaseEntry
JoinBaseInvoice(sales, cr) ==
    LET hit == { i \in DOMAIN sales : sales[i].DocEntry = cr.BaseDocEntry } IN
    IF cr.BaseDocEntry # NullInt /\ hit # {}
    THEN LET h == sales[CHOOSE i \in hit : TRUE] IN
         [cr EXCEPT !.BaseDocNum = h.DocNum, !.BaseDocDate = h.DocDate]
    ELSE cr

\* fallback_query, then the reset of the Base* columns before the loop
ClearBase(cr) ==
    [cr EXCEPT !.BaseDocEntry = NullInt, !.BaseLine = NullInt,
               !.BaseDocNum = NullInt, !.BaseDocDate = NaT]

QtyNeeded(cr) == Abs(cr.Quantity)
AmtNeeded(cr) == Abs(cr.LineTotal)

\* the line is skipped before any candidate is looked at
IsNoOpLine(cr) == QtyNeeded(cr) <= QtyTol \/ AmtNeeded(cr) <= PriceTolAmt

\* |UnitPrice(inv) - UnitPrice(credit)| <= max(price_tol, UnitPrice(credit) * price_tol)
\* with UnitPrice = LineTotal / Quantity.  On the grids a unit price is
\* 1000 * total / qty; the inequality is cleared of its denominators
\* (inv.Quantity > 0 for a candidate) and of the factor 1e-4.
PriceWithinTol(inv, cr) ==
    LET A == Abs(cr.LineTotal)
        Q == Abs(cr.Quantity)
        D == Abs(inv.LineTotal * Q - A * inv.Quantity)
    IN  \/ D <= (inv.Quantity * Q) \div 10000000
        \/ D <= (A * inv.Quantity) \div 10000

MutCandidatesNoSlp(sales, rem, cr) ==
    { i \in DOMAIN sales :
        /\ sales[i].CardCode = cr.CardCode
        /\ sales[i].ItemCode = cr.ItemCode
        /\ sales[i].DocCur = cr.DocCur
        /\ rem[i] > QtyTol
        /\ PriceWithinTol(sales[i], cr) }

\* the candidate mask: same customer, item and currency, the salesperson of
\* the credit note when it has one, quantity left, unit price within tolerance
Candidates(sales, rem, cr) ==
    { i \in DOMAIN sales :
        /\ sales[i].CardCode = cr.CardCode
        /\ sales[i].ItemCode = cr.ItemCode
        /\ sales[i].DocCur = cr.DocCur
        /\ rem[i] > QtyTol
        /\ (cr.SlpCode # NullInt => sales[i].SlpCode = cr.SlpCode)
        /\ PriceWithinTol(sales[i], cr) }

\* candidates dated on or before the credit note, if there are any, else all
DatedCandidates(sales, rem, cr) ==
    LET c == Candidates(sales, rem, cr)
        prior == { i \in c : DateLE(sales[i].DocDate, cr.DocDate) }
    IN  IF cr.DocDate # NaT /\ prior # {} THEN prior ELSE c

PriorOrder(sales, rem, cr) ==
    LET c == Candidates(sales, rem, cr) IN
    cr.DocDate # NaT /\ \E i \in c : DateLE(sales[i].DocDate, cr.DocDate)

MutNoQtyCheck(rem, cr, i) == TRUE

\* the inner loop does not skip the candidate
HasEnough(rem, cr, i) == ~(rem[i] + QtyTol < QtyNeeded(cr))

MutFirstFitEarliest(sales, rem, rank, cr) ==
    LET pool == { i \in Candidates(sales, rem, cr) : HasEnough(rem, cr, i) }
    IN  IF pool = {} THEN 0
        ELSE CHOOSE i \in pool : \A j \in pool :
                \/ DateLT(sales[i].DocDate, sales[j].DocDate)
                \/ sales[i].DocDate = sales[j].DocDate /\ rank[i] <= rank[j]

\* the first candidate, in sort order, that the inner loop does not skip:
\* latest date first among prior candidates, earliest first otherwise; rank
\* is the order the sort leaves equal dates in.  0 when every one is skipped.
FirstFit(sales, rem, rank, cr) ==
    LET pool == { i \in DatedCandidates(sales, rem, cr) : HasEnough(rem, cr, i) }
        desc == PriorOrder(sales, rem, cr)
        Before(i, j) ==
            \/ IF desc THEN DateLT(sales[j].DocDate, sales[i].DocDate)
                       ELSE DateLT(sales[i].DocDate, sales[j].DocDate)
            \/ sales[i].DocDate = sales[j].DocDate /\ rank[i] <= rank[j]
    IN  IF pool = {} THEN 0
        ELSE CHOOSE i \in pool : \A j \in pool : Before(i, j)

LinkTo(cr, cand) ==
    [cr EXCEPT !.BaseDocEntry = cand.DocEntry, !.BaseLine = cand.LineNum,
               !.BaseDocNum = cand.DocNum, !.BaseDocDate = cand.DocDate]

MutConsumeNoFloor(avail, need) == avail - need

\* remaining_qty after the match: max(0.0, available_qty - qty_needed)
Consume(avail, need) == Max(0, avail - need)

\* one pass of the loop body over credit line j; st holds the two work frames
ResolveOne(sales, st, rank, j) ==
    LET cr == st.wc[j]
        c == FirstFit(sales, st.rem, rank, cr)
    IN  IF IsNoOpLine(cr) \/ c = 0 THEN st
        ELSE [rem |-> [st.rem EXCEPT ![c] = Consume(st.rem[c], QtyNeeded(cr))],
              wc |-> [st.wc EXCEPT ![j] = LinkTo(cr, sales[c])]]

RECURSIVE ResolveFrom(_, _, _, _)
ResolveFrom(sales, st, rank, j) ==
    IF j > Len(st.wc) THEN st
    ELSE ResolveFrom(sales, ResolveOne(sales, st, rank, j), rank, j + 1)

\* the whole function: the early return, then the loop
ResolveCreditBaseDocuments(sales, credits, rank) ==
    IF credits = <<>> \/ sales = <<>> THEN [rem |-> <<>>, wc |-> credits]
    ELSE ResolveFrom(sales, [rem |-> [i \in DOMAIN sales |-> sales[i].Quantity],
                             wc |-> credits], rank, 1)

\* df_credits as the netting step receives it
ExtractCredits(sales, credits, baseRefs, rank) ==
    IF baseRefs
    THEN [rem |-> <<>>, wc |-> [j \in DOMAIN credits |-> JoinBaseInvoice(sales, credits[j])]]
    ELSE ResolveCreditBaseDocuments(sales, [j \in DOMAIN credits |-> ClearBase(credits[j])], rank)

\* unmatched = work_credits['BaseDocEntry'].isna().sum()
Unmatched(credits) ==
    Cardinality({ j \in DOMAIN credits : credits[j].BaseDocEntry = NullInt })

-----------------------------------------------------------------------------
(* extract_source_data: netting of invoices and credit notes *)

IsBase(r) == r.BaseDocEntry # NullInt

\* DocDate after the overwrite with BaseDocDate
EffDate(r) == IF IsBase(r) /\ r.BaseDocDate # NaT THEN r.BaseDocDate ELSE r.DocDate

ResolvedDocEntry(r) == IF IsBase(r) THEN r.BaseDocEntry ELSE r.DocEntry

ResolvedLineNum(r) ==
    IF IsBase(r) /\ r.BaseLine # NullInt /\ r.BaseLine >= 0 THEN r.BaseLine ELSE r.LineNum

ResolvedDocNum(r) ==
    IF IsBase(r) /\ r.BaseDocNum # NullInt THEN r.BaseDocNum ELSE r.DocNum

\* net_group_keys
GroupKey(r) ==
    <<ResolvedDocEntry(r), ResolvedLineNum(r), r.ItemCode, r.CardCode, r.SlpCode, r.DocCur>>

\* groupby sorts its keys; text keys sort by code point, NaN sorts last
StrOrder == <<"C1", "C2", "CRC", "I1", "I2", "USD">>
StrRank(x) == CHOOSE i \in DOMAIN StrOrder : StrOrder[i] = x
KeyRank(k) ==
    <<k[1], k[2], StrRank(k[3]), StrRank(k[4]),
      IF k[5] = NullInt THEN 999999 ELSE k[5], StrRank(k[6])>>

RECURSIVE LexLE(_, _)
LexLE(a, b) ==
    IF a = <<>> THEN TRUE
    ELSE Head(a) < Head(b) \/ (Head(a) = Head(b) /\ LexLE(Tail(a), Tail(b)))

RECURSIVE SortKeys(_)
SortKeys(S) ==
    IF S = {} THEN <<>>
    ELSE LET m == CHOOSE x \in S : \A y \in S : LexLE(KeyRank(x), KeyRank(y))
         IN  <<m>> \o SortKeys(S \ {m})

RECURSIVE MinDate(_)
MinDate(ds) ==
    IF ds = <<>> THEN NaT
    ELSE LET rest == MinDate(Tail(ds)) IN
         IF Head(ds) = NaT THEN rest
         ELSE IF rest = NaT \/ DateLE(Head(ds), rest) THEN Head(ds) ELSE rest

RECURSIVE FirstNonNull(_)
FirstNonNull(xs) ==
    IF xs = <<>> THEN NullInt
    ELSE IF Head(xs) # NullInt THEN Head(xs) ELSE FirstNonNull(Tail(xs))

\* one row per group: DocDate min, Quantity sum, LineTotal sum, DocNum first
Aggregate(df, k) ==
    LET rows == SelectSeq(df, LAMBDA r : GroupKey(r) = k) IN
    [DocEntry |-> k[1], LineNum |-> k[2], ItemCode |-> k[3], CardCode |-> k[4],
     SlpCode |-> k[5], DocCur |-> k[6],
     DocDate |-> MinDate([i \in DOMAIN rows |-> EffDate(rows[i])]),
     Quantity |-> SumSeq([i \in DOMAIN rows |-> rows[i].Quantity]),
     LineTotal |-> SumSeq([i \in DOMAIN rows |-> rows[i].LineTotal]),
     DocNum |-> FirstNonNull([i \in DOMAIN rows |-> ResolvedDocNum(rows[i])])]

\* df_fact_grouped
GroupNet(df) ==
    LET keys == SortKeys({ GroupKey(df[i]) : i \in DOMAIN df }) IN
    [g \in DOMAIN keys |-> Aggregate(df, keys[g])]

MutZeroQtyOnly(g) == Abs(g.Quantity) < QtyZeroEps

MutZeroEither(g) == Abs(g.Quantity) < QtyZeroEps \/ Abs(g.LineTotal) < AmtZeroEps

\* zero_mask
IsZeroGroup(g) == Abs(g.Quantity) < QtyZeroEps /\ Abs(g.LineTotal) < AmtZeroEps

\* what is left of a grouped row after the drop of the document columns;
\* index is the row's label, which .loc[~zero_mask] keeps
FactCandidate(grouped, g) ==
    [index |-> g, ItemCode |-> grouped[g].ItemCode, CardCode |-> grouped[g].CardCode,
     SlpCode |-> grouped[g].SlpCode, DocCur |-> grouped[g].DocCur,
     DocDate |-> grouped[g].DocDate, Quantity |-> grouped[g].Quantity,
     LineTotal |-> grouped[g].LineTotal, DocNum |-> grouped[g].DocNum]

RECURSIVE KeepFrom(_, _)
KeepFrom(grouped, g) ==
    IF g > Len(grouped) THEN <<>>
    ELSE (IF IsZeroGroup(grouped[g]) THEN <<>> ELSE <<FactCandidate(grouped, g)>>)
         \o KeepFrom(grouped, g + 1)

\* concat, resolve, group, drop the groups that net to zero
Consolidated(sales, credits) == KeepFrom(GroupNet(sales \o credits), 1)

-----------------------------------------------------------------------------
\* no call made on the single dimension, no second run of the loader
NoCall ==
    [source |-> <<>>, before |-> <<>>, inserted |-> 0, attempts |-> 0, exc |-> "none",
     lookup |-> <<>>]

\* the lookup frames of a run before load_dimensions has filled them
NoLookups ==
    [customer |-> <<>>, product |-> <<>>, salesperson |-> <<>>, warehouse |-> <<>>,
     currency |-> <<>>]

SideIdle ==
    /\ dim_table = [rows |-> <<>>, ident |-> 1]
    /\ dim_kind = "text"
    /\ dim_ci = TRUE
    /\ dim_source = <<>>
    /\ dim_calls = 0
    /\ dim_last = NoCall
    /\ dim_prev = NoCall
    /\ race_pc = <<"done", "done">>
    /\ race_batch = <<<<>>, <<>>>>
    /\ race_last = 0

-----------------------------------------------------------------------------
(* extract_source_data, one credit-note line at a time *)

InitExtract ==
    /\ df_sales \in SeqsByDocEntry(SalePool, MaxSales)
    /\ df_credits \in SeqsNoDup(CreditPool, MaxCredits)
    /\ base_refs_available \in BOOLEAN
    /\ tieRank \in Perms(Len(df_sales))
    /\ remaining_qty = <<>>
    /\ work_credits = <<>>
    /\ idx = 0
    /\ epc = "query"
    /\ sales_fact = <<>>
    /\ src_customers = <<>>
    /\ src_products = <<>>
    /\ dim_customers = <<>>
    /\ dim_products = <<>>
    /\ fact = <<>>
    /\ pending = <<>>
    /\ constraints = "CHECK"
    /\ pc = "idle"
    /\ runs = 0
    /\ dim_dfs = NoLookups
    /\ batch = <<>>
    /\ row_i = 0
    /\ failed_rows = <<>>
    /\ success_count = 0
    /\ statements = <<>>
    /\ exc = "none"
    /\ outcome = "none"
    /\ fact_before = <<>>
    /\ constraints_before = "CHECK"
    /\ loaded = [outcome |-> "none", rows |-> <<>>]
    /\ SideIdle

\* the rest of the state, which extract_source_data does not touch
RestOfRun == <<src_customers, src_products, dwVars, runVars, histVars, sideVars>>

\* credit_query_base succeeds: the links come from RIN1, no reconciliation
ReadCreditsLinked ==
    /\ epc = "query"
    /\ base_refs_available
    /\ work_credits' = [j \in DOMAIN df_credits |-> JoinBaseInvoice(df_sales, df_credits[j])]
    /\ epc' = "consolidate"
    /\ UNCHANGED <<df_sales, df_credits, base_refs_available, tieRank,
                   remaining_qty, idx, sales_fact, RestOfRun>>

\* fallback_query, then the entry of _resolve_credit_base_documents with its
\* early return when either frame is empty
ReadCreditsFallback ==
    /\ epc = "query"
    /\ ~base_refs_available
    /\ work_credits' = [j \in DOMAIN df_credits |-> ClearBase(df_credits[j])]
    /\ IF df_credits = <<>> \/ df_sales = <<>>
       THEN /\ epc' = "consolidate"
            /\ UNCHANGED <<remaining_qty, idx>>
       ELSE /\ epc' = "resolve"
            /\ remaining_qty' = [i \in DOMAIN df_sales |-> df_sales[i].Quantity]
            /\ idx' = 1
    /\ UNCHANGED <<df_sales, df_credits, base_refs_available, tieRank, sales_fact,
                   RestOfRun>>

InLoop == epc = "resolve" /\ idx <= Len(work_credits)

ResolveFrame == <<df_sales, df_credits, base_refs_available, tieRank, epc, sales_fact,
                  RestOfRun>>

\* if qty_needed <= qty_tol or amt_needed <= price_tol: continue
ResolveSkip ==
    /\ InLoop
    /\ IsNoOpLine(work_credits[idx])
    /\ idx' = idx + 1
    /\ UNCHANGED <<remaining_qty, work_credits>>
    /\ UNCHANGED ResolveFrame

\* if candidates.empty: continue
ResolveNoCandidate ==
    /\ InLoop
    /\ ~IsNoOpLine(work_credits[idx])
    /\ Candidates(df_sales, remaining_qty, work_credits[idx]) = {}
    /\ idx' = idx + 1
    /\ UNCHANGED <<remaining_qty, work_credits>>
    /\ UNCHANGED ResolveFrame

\* the inner loop reaches a candidate with enough remaining quantity
ResolveMatch ==
    /\ InLoop
    /\ ~IsNoOpLine(work_credits[idx])
    /\ FirstFit(df_sales, remaining_qty, tieRank, work_credits[idx]) # 0
    /\ LET st == ResolveOne(df_sales, [rem |-> remaining_qty, wc |-> work_credits],
                            tieRank, idx)
       IN  /\ work_credits' = st.wc
           /\ remaining_qty' = st.rem
    /\ idx' = idx + 1
    /\ UNCHANGED ResolveFrame

\* the inner loop skips every candidate
ResolveUnmatched ==
    /\ InLoop
    /\ ~IsNoOpLine(work_credits[idx])
    /\ Candidates(df_sales, remaining_qty, work_credits[idx]) # {}
    /\ FirstFit(df_sales, remaining_qty, tieRank, work_credits[idx]) = 0
    /\ idx' = idx + 1
    /\ UNCHANGED <<remaining_qty, work_credits>>
    /\ UNCHANGED ResolveFrame

\* return work_credits
ResolveReturn ==
    /\ epc = "resolve"
    /\ idx > Len(work_credits)
    /\ epc' = "consolidate"
    /\ UNCHANGED <<df_sales, df_credits, base_refs_available, tieRank,
                   remaining_qty, work_credits, idx, sales_fact, RestOfRun>>

\* concat, group, net, drop the zero groups
Consolidate ==
    /\ epc = "consolidate"
    /\ sales_fact' = Consolidated(df_sales, work_credits)
    /\ epc' = "done"
    /\ UNCHANGED <<df_sales, df_credits, base_refs_available, tieRank,
                   remaining_qty, work_credits, idx, RestOfRun>>

NextExtract ==
    \/ ReadCreditsLinked
    \/ ReadCreditsFallback
    \/ ResolveSkip
    \/ ResolveNoCandidate
    \/ ResolveMatch
    \/ ResolveUnmatched
    \/ ResolveReturn
    \/ Consolidate

SpecExtract == InitExtract /\ [][NextExtract]_vars

-----------------------------------------------------------------------------
(* The warehouse side: load_dimensions, load_fact_sales, run_etl.          *)
(* run_etl is taken as main.py calls it (recreate_schema=False), so the    *)
(* warehouse keeps what earlier runs and the sibling feeds left in it.     *)
(* A fact row carries the columns the loader validates and the audit       *)
(* columns; the IDENTITY id and load_ts of dw.FACT_SALES are left out.     *)

MaxRuns == 2

SOURCE_SYSTEM_DB == "DB_SALES"

\* str.strip().str.upper() on the key strings the model uses
Normalize(x) ==
    CASE x = "c1 " -> "C1"
      [] x = " C1" -> "C1"
      [] x = " col " -> "COL"
      [] x = "col" -> "COL"
      [] OTHER -> x

\* strftime('%Y%m%d').astype(int); NaN for NaT
DateKey(d) == IF d = NaT THEN NullInt ELSE d[1] * 10000 + d[2] * 100 + d[3]

FactRow(d, c, p, sp, w, cur, q, usd, crc, sys, doc) ==
    [idDate |-> d, idCustomer |-> c, idProduct |-> p, idSalesperson |-> sp,
     idWarehouse |-> w, idCurrency |-> cur, quantity |-> q,
     total_usd |-> usd, total_crc |-> crc, source_system |-> sys, source_doc_id |-> doc]

\* a row loaded by the JSON feed, and a DB_SALES row left by an earlier load
OtherFeedRow ==
    FactRow(20240103, 1, 1, NullInt, 0, 2, 5000, 50000, NullInt, "AGG_JSON", 900)
StaleRow ==
    FactRow(20231201, 1, 1, NullInt, 0, 2, 7000, 70000, NullInt, SOURCE_SYSTEM_DB, 99)
PriorFacts == { <<>>, <<OtherFeedRow>>, <<StaleRow, OtherFeedRow>> }

\* a dimension table: its rows and the next IDENTITY value
DimTable(rows, ident) == [rows |-> rows, ident |-> ident]

\* OCRD and OITM as the extract reads them
CustomerMasters ==
    { <<[CardCode |-> "C1", name |-> "n1"]>>,
      <<[CardCode |-> "c1 ", name |-> "n1"], [CardCode |-> "C2", name |-> "n2"]>> }
ProductMasters ==
    { <<[ItemCode |-> "I1", name |-> "n1"], [ItemCode |-> "I2", name |-> "n2"]>>,
      <<[ItemCode |-> "I1", name |-> "n1"], [ItemCode |-> "I2", name |-> "n1"]>> }

\* the rows of a table under one tag / under the other tags, in table order
TagRows(f) == SelectSeq(f, LAMBDA r : r.source_system = SOURCE_SYSTEM_DB)
OtherRows(f) == SelectSeq(f, LAMBDA r : r.source_system # SOURCE_SYSTEM_DB)

MutDeleteAll(f) == <<>>

MutNoDelete(f) == f

\* DELETE FROM dw.FACT_SALES WHERE source_system = ?
DeleteByTag(f) == SelectSeq(f, LAMBDA r : r.source_system # SOURCE_SYSTEM_DB)

\* drop_duplicates(subset=[f]), keep='first'
RECURSIVE DropDuplicates(_, _)
DropDuplicates(df, f) ==
    IF df = <<>> THEN <<>>
    ELSE LET head == DropDuplicates(SubSeq(df, 1, Len(df) - 1), f)
             r == df[Len(df)]
         IN  IF \E i \in DOMAIN head : head[i][f] = r[f] THEN head ELSE Append(head, r)

\* df_to_insert: the rows whose normalized key the table does not hold
NewRows(table, df, f) ==
    SelectSeq(DropDuplicates(df, f),
              LAMBDA r : \A i \in DOMAIN table.rows :
                            Normalize(table.rows[i].code) # Normalize(r[f]))

\* executemany + commit of df_to_insert; the surrogate keys are the IDENTITY values
InsertDim(table, df, f) ==
    LET new == NewRows(table, df, f)
    IN  DimTable(table.rows \o [i \in DOMAIN new |->
                                   [id |-> table.ident + i - 1, code |-> new[i][f],
                                    name |-> new[i].name]],
                 table.ident + Len(new))

\* the text the NVARCHAR key column holds for a source key
NumText == (5 :> "5") @@ (7 :> "7")
StoredKey(kind, k) == IF kind = "number" THEN NumText[k] ELSE k

\* normalize() leaves a numeric series as it is, and no number is found in the
\* set of normalized text keys read from the table: every row counts as new
NewRowsOfKind(table, df, f, kind) ==
    IF kind = "number" THEN DropDuplicates(df, f) ELSE NewRows(table, df, f)

MutUpsertDim(table, df, f, kind) ==
    LET new == NewRowsOfKind(table, df, f, kind)
        kept == [i \in DOMAIN table.rows |->
                    IF \E n \in DOMAIN df : StoredKey(kind, df[n][f]) = table.rows[i].code
                    THEN [table.rows[i] EXCEPT !.name =
                            df[CHOOSE n \in DOMAIN df :
                                  StoredKey(kind, df[n][f]) = table.rows[i].code].name]
                    ELSE table.rows[i]]
    IN  DimTable(kept \o [i \in DOMAIN new |->
                            [id |-> table.ident + i - 1, code |-> StoredKey(kind, new[i][f]),
                             name |-> new[i].name]],
                 table.ident + Len(new))

\* the INSERT of df_to_insert, for either kind of key
InsertDimOfKind(table, df, f, kind) ==
    LET new == NewRowsOfKind(table, df, f, kind)
    IN  DimTable(table.rows \o [i \in DOMAIN new |->
                                   [id |-> table.ident + i - 1, code |-> StoredKey(kind, new[i][f]),
                                    name |-> new[i].name]],
                 table.ident + Len(new))

\* what the UNIQUE constraint of the key column compares: trailing blanks are
\* ignored, case is ignored under a case-insensitive collation
RTrim(x) == CASE x = "c1 " -> "c1" [] OTHER -> x
Upper(x) == CASE x = "c1" -> "C1" [] OTHER -> x
CollationKey(x, ci) == IF ci THEN Upper(RTrim(x)) ELSE RTrim(x)

\* the insert would put two equal keys into the column
ViolatesUnique(table, df, f, kind, ci) ==
    LET after == InsertDimOfKind(table, df, f, kind).rows
    IN  \E i, j \in DOMAIN after :
            i < j /\ CollationKey(after[i].code, ci) = CollationKey(after[j].code, ci)

RECURSIVE Flatten(_)
Flatten(ss) == IF ss = <<>> THEN <<>> ELSE Head(ss) \o Flatten(Tail(ss))

\* the ids of the lookup rows whose normalized key is k, in frame order
MatchIds(dim, k) ==
    LET hits == SelectSeq(dim, LAMBDA d : Normalize(d.code) = k)
    IN  [i \in DOMAIN hits |-> hits[i].id]

\* df.merge(lookup, how='left'): one row per match, a null id when none
MergeLeft(rows, dim, keyField, idField) ==
    Flatten([n \in DOMAIN rows |->
        LET ids == MatchIds(dim, Normalize(rows[n][keyField]))
        IN  IF ids = <<>> THEN << rows[n] @@ (idField :> NullInt) >>
            ELSE [i \in DOMAIN ids |-> rows[n] @@ (idField :> ids[i])] ])

\* fallback_id = int(dim_dfs['product']['idProduct'].min()), 1 when that raises
FallbackProduct(dim) ==
    IF dim = <<>> THEN 1
    ELSE CHOOSE m \in { dim[i].id : i \in DOMAIN dim } : \A i \in DOMAIN dim : m <= dim[i].id

FillProduct(rows, dim) ==
    [n \in DOMAIN rows |->
        IF rows[n].idProduct = NullInt
        THEN [rows[n] EXCEPT !.idProduct = FallbackProduct(dim)] ELSE rows[n]]

\* a DocCur that is NULL in the source
NoCurrency == "<NA>"

MutCurNoAlias(c) == IF c = NoCurrency THEN "" ELSE Normalize(c)

\* DocCur_norm: fillna(''), strip, upper, then the source alias COL mapped to CRC
CurNorm(c) ==
    IF c = NoCurrency THEN ""
    ELSE IF Normalize(c) = "COL" THEN "CRC" ELSE Normalize(c)

MutTotalAlways(code, r) == r.LineTotal

\* np.where(DocCur_norm == code, LineTotal, NaN)
TotalIn(code, r) == IF CurNorm(r.DocCur) = code THEN r.LineTotal ELSE NullInt

\* the entry ensure_unknown_warehouse keeps in DIM_WAREHOUSE, and the two
\* currencies load_dimensions loads
UnknownWarehouse == [id |-> 0, code |-> "UNK", name |-> "Bodega Desconocida"]
CurrencyRows ==
    << [id |-> 1, code |-> "CRC", name |-> "Colones"],
       [id |-> 2, code |-> "USD", name |-> "Dolares"] >>

\* normalize_series on SlpCode: astype(str) of an integer column, or of a
\* float column when some row of the frame has no salesperson; '' for NaN
SlpText(sf, v) ==
    LET asFloat == \E n \in DOMAIN sf : sf[n].SlpCode = NullInt
    IN  CASE v = NullInt -> ""
          [] v = 1 -> IF asFloat THEN "1.0" ELSE "1"
          [] v = 2 -> IF asFloat THEN "2.0" ELSE "2"

\* merge on SlpCode = spCode: the lookup side is taken as the table holds it
MergeSalesperson(rows, dim) ==
    Flatten([n \in DOMAIN rows |->
        LET hits == SelectSeq(dim, LAMBDA d : d.code = rows[n].SlpKey)
        IN  IF hits = <<>> THEN << rows[n] @@ ("idSalesperson" :> NullInt) >>
            ELSE [i \in DOMAIN hits |-> rows[n] @@ ("idSalesperson" :> hits[i].id)] ])

MutWarehouseLast(r, dim) == IF dim = <<>> THEN 0 ELSE dim[Len(dim)].id

\* idWarehouse: looked up when the frame has a WhsCode column, else 0;
\* a code that is not found gives 0 as well
WarehouseKey(r, dim) ==
    IF "WhsCode" \in DOMAIN r
    THEN LET ids == MatchIds(dim, Normalize(r.WhsCode))
         IN  IF ids = <<>> THEN 0 ELSE ids[1]
    ELSE 0

\* idCurrency: the currency lookup, one entry per normalized code, joined on
\* DocCur_norm
CurrencyKey(dim, c) ==
    LET ids == MatchIds(dim, CurNorm(c))
    IN  IF ids = <<>> THEN NullInt ELSE ids[1]

\* df_fact_final: keys from the lookups, totals by currency, audit columns
BuildFact(sf, dims) ==
    LET dated == [n \in DOMAIN sf |->
                     sf[n] @@ ("idDate" :> DateKey(sf[n].DocDate))
                           @@ ("SlpKey" :> SlpText(sf, sf[n].SlpCode))]
        withCust == MergeLeft(dated, dims.customer, "CardCode", "idCustomer")
        withProd == MergeLeft(withCust, dims.product, "ItemCode", "idProduct")
        withSlp == MergeSalesperson(withProd, dims.salesperson)
        filled == FillProduct(withSlp, dims.product)
    IN  [n \in DOMAIN filled |->
            LET r == filled[n]
            IN  FactRow(r.idDate, r.idCustomer, r.idProduct, r.idSalesperson,
                        WarehouseKey(r, dims.warehouse),
                        CurrencyKey(dims.currency, r.DocCur), r.Quantity,
                        TotalIn("USD", r), TotalIn("CRC", r),
                        SOURCE_SYSTEM_DB, r.DocNum)]

\* a required column of the row is null
NullRequired(r) ==
    r.idDate = NullInt \/ r.idCustomer = NullInt \/ r.idProduct = NullInt \/ r.quantity = NullInt

MutNoIssues(b) == FALSE

\* issues: some required column has nulls
HasIssues(b) == \E n \in DOMAIN b : NullRequired(b[n])

MutCommitTail(f, b) == f \o Tail(b)

\* cursor.executemany(insert_sql, data_to_insert); dw_conn.commit()
CommitBulk(f, b) == f \o b

MutNoRestore(stmts) == stmts

\* finally: ALTER TABLE dw.FACT_SALES WITH CHECK CHECK CONSTRAINT ALL
FinallyRestore(stmts) == Append(stmts, "CHECK")

-----------------------------------------------------------------------------
(* run_etl, one call or statement outcome at a time *)

PipeSalePool == { s \in SalePool : s.DocEntry \in {1, 5, 7} }
PipeCreditPool == { c \in CreditPool : c.DocEntry = 12 }

Init ==
    /\ df_sales \in SeqsByDocEntry(PipeSalePool, MaxSales)
    /\ df_credits \in SeqsNoDup(PipeCreditPool, MaxCredits)
    /\ base_refs_available \in BOOLEAN
    /\ tieRank = [i \in 1..Len(df_sales) |-> i]
    /\ remaining_qty = <<>>
    /\ work_credits = <<>>
    /\ idx = 0
    /\ epc = "query"
    /\ sales_fact = <<>>
    /\ src_customers \in CustomerMasters
    /\ src_products \in ProductMasters
    /\ dim_customers = DimTable(<<[id |-> 1, code |-> "C9", name |-> "n9"]>>, 2)
    /\ dim_products = DimTable(<<[id |-> 1, code |-> "I9", name |-> "n9"]>>, 2)
    /\ fact \in PriorFacts
    /\ pending = <<>>
    /\ constraints = "CHECK"
    /\ pc = "idle"
    /\ runs = 0
    /\ dim_dfs = NoLookups
    /\ batch = <<>>
    /\ row_i = 0
    /\ failed_rows = <<>>
    /\ success_count = 0
    /\ statements = <<>>
    /\ exc = "none"
    /\ outcome = "none"
    /\ fact_before = fact
    /\ constraints_before = "CHECK"
    /\ loaded = [outcome |-> "none", rows |-> <<>>]
    /\ SideIdle

loopVars == <<row_i, failed_rows, success_count>>

\* run_etl is called: connections opened, nothing in flight
RunEtl ==
    /\ pc = "idle"
    /\ runs < MaxRuns
    /\ pc' = "extract"
    /\ UNCHANGED <<extractVars, src_customers, src_products, dwVars, runs, dim_dfs, batch,
                   loopVars, statements, exc, outcome, histVars>>
    /\ UNCHANGED sideVars

\* source_data = extract_source_data(source_conn)
ExtractSourceData ==
    /\ pc = "extract"
    /\ LET st == ExtractCredits(df_sales, df_credits, base_refs_available, tieRank)
       IN  /\ remaining_qty' = st.rem
           /\ work_credits' = st.wc
           /\ sales_fact' = Consolidated(df_sales, st.wc)
    /\ epc' = "done"
    /\ pc' = "dim_leading"
    /\ UNCHANGED <<df_sales, df_credits, base_refs_available, tieRank, idx,
                   src_customers, src_products, dwVars, runs, dim_dfs, batch, loopVars,
                   statements, exc, outcome, histVars>>
    /\ UNCHANGED sideVars

\* load_dimensions, steps A to D, for a source without warehouses and
\* salespersons: the lookups hold the unknown warehouse and the two currencies
LoadDimLeading ==
    /\ pc = "dim_leading"
    /\ dim_dfs' = [dim_dfs EXCEPT !.warehouse = <<UnknownWarehouse>>,
                                  !.currency = CurrencyRows]
    /\ pc' = "dim_products"
    /\ UNCHANGED <<extractVars, src_customers, src_products, dwVars, runs, batch, loopVars,
                   statements, exc, outcome, histVars>>
    /\ UNCHANGED sideVars

\* load_dimensions, DIM_PRODUCTS: dedupe by name, insert the new keys, read the lookup
LoadDimProducts ==
    /\ pc = "dim_products"
    /\ dim_products' = InsertDim(dim_products, DropDuplicates(src_products, "name"), "ItemCode")
    /\ dim_dfs' = [dim_dfs EXCEPT !.product = dim_products'.rows]
    /\ pc' = "dim_customers"
    /\ UNCHANGED <<extractVars, src_customers, src_products, dim_customers, fact, pending,
                   constraints, runs, batch, loopVars, statements, exc, outcome, histVars>>
    /\ UNCHANGED sideVars

MutDimFailsSwallowed ==
    /\ pc = "dim_products"
    /\ exc' = "pyodbc.Error"
    /\ pc' = "dim_customers"
    /\ UNCHANGED <<extractVars, src_customers, src_products, dwVars, runs, dim_dfs, batch,
                   loopVars, statements, outcome, histVars>>
    /\ UNCHANGED sideVars

\* the insert or a read fails: nothing is committed, IDENTITY values may be used up
LoadDimProductsFails ==
    /\ pc = "dim_products"
    /\ \E k \in {0, Len(NewRows(dim_products, DropDuplicates(src_products, "name"), "ItemCode"))} :
          dim_products' = [dim_products EXCEPT !.ident = @ + k]
    /\ exc' = "pyodbc.Error"
    /\ pc' = "run_end"
    /\ UNCHANGED <<extractVars, src_customers, src_products, dim_customers, fact, pending,
                   constraints, runs, dim_dfs, batch, loopVars, statements, outcome, histVars>>
    /\ UNCHANGED sideVars

\* load_dimensions, DIM_CUSTOMERS
LoadDimCustomers ==
    /\ pc = "dim_customers"
    /\ dim_customers' = InsertDim(dim_customers, src_customers, "CardCode")
    /\ dim_dfs' = [dim_dfs EXCEPT !.customer = dim_customers'.rows]
    /\ pc' = "load_fact"
    /\ UNCHANGED <<extractVars, src_customers, src_products, dim_products, fact, pending,
                   constraints, runs, batch, loopVars, statements, exc, outcome, histVars>>
    /\ UNCHANGED sideVars

LoadDimCustomersFails ==
    /\ pc = "dim_customers"
    /\ \E k \in {0, Len(NewRows(dim_customers, src_customers, "CardCode"))} :
          dim_customers' = [dim_customers EXCEPT !.ident = @ + k]
    /\ exc' = "pyodbc.Error"
    /\ pc' = "run_end"
    /\ UNCHANGED <<extractVars, src_customers, src_products, dim_products, fact, pending,
                   constraints, runs, dim_dfs, batch, loopVars, statements, outcome, histVars>>
    /\ UNCHANGED sideVars

\* load_fact_sales is entered
LoadFactEnter ==
    /\ pc = "load_fact"
    /\ fact_before' = fact
    /\ constraints_before' = constraints
    /\ outcome' = "entered"
    /\ pc' = "cleanup"
    /\ UNCHANGED <<extractVars, src_customers, src_products, dwVars, runs, dim_dfs, batch,
                   loopVars, statements, exc, loaded>>
    /\ UNCHANGED sideVars

\* DELETE ... WHERE source_system = 'DB_SALES'; commit
Cleanup ==
    /\ pc = "cleanup"
    /\ statements' = Append(statements, "DELETE")
    /\ fact' = DeleteByTag(fact)
    /\ pc' = "validate"
    /\ UNCHANGED <<extractVars, src_customers, src_products, dim_customers, dim_products,
                   pending, constraints, runs, dim_dfs, batch, loopVars, exc, outcome,
                   histVars>>
    /\ UNCHANGED sideVars

\* the delete or its commit fails: rollback, RuntimeError to the caller
CleanupFails ==
    /\ pc = "cleanup"
    /\ statements' = Append(statements, "DELETE")
    /\ exc' = "RuntimeError"
    /\ outcome' = "cleanup_failed"
    /\ pc' = "run_end"
    /\ UNCHANGED <<extractVars, src_customers, src_products, dwVars, runs, dim_dfs, batch,
                   loopVars, histVars>>
    /\ UNCHANGED sideVars

\* the batch is built and passes the pre-insert checks
ValidatePasses ==
    /\ pc = "validate"
    /\ batch' = BuildFact(sales_fact, dim_dfs)
    /\ ~HasIssues(batch')
    /\ pc' = "relax"
    /\ UNCHANGED <<extractVars, src_customers, src_products, dwVars, runs, dim_dfs,
                   loopVars, statements, exc, outcome, histVars>>
    /\ UNCHANGED sideVars

\* the batch is built and rejected: ValueError to the caller
ValidateRejects ==
    /\ pc = "validate"
    /\ batch' = BuildFact(sales_fact, dim_dfs)
    /\ HasIssues(batch')
    /\ exc' = "ValueError"
    /\ outcome' = "rejected"
    /\ pc' = "run_end"
    /\ UNCHANGED <<extractVars, src_customers, src_products, dwVars, runs, dim_dfs,
                   loopVars, statements, histVars>>
    /\ UNCHANGED sideVars

\* ALTER TABLE ... NOCHECK CONSTRAINT ALL; commit
Relax ==
    /\ pc = "relax"
    /\ statements' = Append(statements, "NOCHECK")
    /\ constraints' = "NOCHECK"
    /\ pc' = "bulk"
    /\ UNCHANGED <<extractVars, src_customers, src_products, dim_customers, dim_products,
                   fact, pending, runs, dim_dfs, batch, loopVars, exc, outcome, histVars>>
    /\ UNCHANGED sideVars

\* the statement fails and the loader goes on with the checks in place
RelaxFails ==
    /\ pc = "relax"
    /\ statements' = Append(statements, "NOCHECK")
    /\ pc' = "bulk"
    /\ UNCHANGED <<extractVars, src_customers, src_products, dwVars, runs, dim_dfs, batch,
                   loopVars, exc, outcome, histVars>>
    /\ UNCHANGED sideVars

\* dw_conn.cursor() raises: caught by the outer handler, rollback, no re-raise
CursorFails ==
    /\ pc = "relax"
    /\ pending' = <<>>
    /\ outcome' = "insert_error"
    /\ pc' = "finally"
    /\ UNCHANGED <<extractVars, src_customers, src_products, dim_customers, dim_products,
                   fact, constraints, runs, dim_dfs, batch, loopVars, statements, exc,
                   histVars>>
    /\ UNCHANGED sideVars

\* executemany + commit; pyodbc refuses an empty parameter list
BulkInsert ==
    /\ pc = "bulk"
    /\ batch # <<>>
    /\ statements' = Append(statements, "INSERT")
    /\ fact' = CommitBulk(fact, batch)
    /\ outcome' = "loaded"
    /\ pc' = "finally"
    /\ UNCHANGED <<extractVars, src_customers, src_products, dim_customers, dim_products,
                   pending, constraints, runs, dim_dfs, batch, loopVars, exc, histVars>>
    /\ UNCHANGED sideVars

\* building the parameters or executemany raises something that is not a
\* pyodbc.Error: caught by the outer "except Exception", rollback, no re-raise
InsertRaises ==
    /\ pc = "bulk"
    /\ pending' = <<>>
    /\ outcome' = "insert_error"
    /\ pc' = "finally"
    /\ UNCHANGED <<extractVars, src_customers, src_products, dim_customers, dim_products,
                   fact, constraints, runs, dim_dfs, batch, loopVars, statements, exc,
                   histVars>>
    /\ UNCHANGED sideVars

\* pyodbc.Error from executemany or commit: rollback, fall back to per-row inserts
BulkInsertFails ==
    /\ pc = "bulk"
    /\ statements' = Append(statements, "INSERT")
    /\ pending' = <<>>
    /\ row_i' = 1
    /\ failed_rows' = <<>>
    /\ success_count' = 0
    /\ outcome' = "bulk_failed"
    /\ pc' = "rows"
    /\ UNCHANGED <<extractVars, src_customers, src_products, dim_customers, dim_products,
                   fact, constraints, runs, dim_dfs, batch, exc, histVars>>
    /\ UNCHANGED sideVars

\* row_cursor.execute and dw_conn.commit succeed: the row, and whatever an
\* earlier failed commit left in the transaction, are committed
RowInsert ==
    /\ pc = "rows"
    /\ row_i <= Len(batch)
    /\ statements' = Append(statements, "INSERT")
    /\ fact' = fact \o Append(pending, batch[row_i])
    /\ pending' = <<>>
    /\ success_count' = success_count + 1
    /\ row_i' = row_i + 1
    /\ UNCHANGED <<extractVars, src_customers, src_products, dim_customers, dim_products,
                   constraints, pc, runs, dim_dfs, batch, failed_rows, exc, outcome,
                   histVars>>
    /\ UNCHANGED sideVars

\* row_cursor.execute raises
RowInsertFails ==
    /\ pc = "rows"
    /\ row_i <= Len(batch)
    /\ statements' = Append(statements, "INSERT")
    /\ failed_rows' = Append(failed_rows, row_i)
    /\ row_i' = row_i + 1
    /\ UNCHANGED <<extractVars, src_customers, src_products, dwVars, pc, runs, dim_dfs,
                   batch, success_count, exc, outcome, histVars>>
    /\ UNCHANGED sideVars

\* the execute succeeds and the commit raises: the row stays in the transaction
RowCommitFails ==
    /\ pc = "rows"
    /\ row_i <= Len(batch)
    /\ statements' = Append(statements, "INSERT")
    /\ pending' = Append(pending, batch[row_i])
    /\ failed_rows' = Append(failed_rows, row_i)
    /\ row_i' = row_i + 1
    /\ UNCHANGED <<extractVars, src_customers, src_products, dim_customers, dim_products,
                   fact, constraints, pc, runs, dim_dfs, batch, success_count, exc, outcome,
                   histVars>>
    /\ UNCHANGED sideVars

\* dw_conn.cursor() raises for the next row: the call is outside the try of
\* the loop, so the loop ends there; the outer handler rolls back, no re-raise
RowCursorFails ==
    /\ pc = "rows"
    /\ row_i <= Len(batch)
    /\ pending' = <<>>
    /\ outcome' = "rows_aborted"
    /\ pc' = "finally"
    /\ UNCHANGED <<extractVars, src_customers, src_products, dim_customers, dim_products,
                   fact, constraints, runs, dim_dfs, batch, loopVars, statements, exc,
                   histVars>>
    /\ UNCHANGED sideVars

\* after the loop: restore the checks (its commit takes the open transaction
\* with it), raise RuntimeError; the outer "except Exception" catches it,
\* rolls back and does not re-raise
RowsDone ==
    /\ pc = "rows"
    /\ row_i > Len(batch)
    /\ statements' = Append(statements, "CHECK")
    /\ constraints' = "CHECK"
    /\ fact' = fact \o pending
    /\ pending' = <<>>
    /\ outcome' = "rows_done"
    /\ pc' = "finally"
    /\ UNCHANGED <<extractVars, src_customers, src_products, dim_customers, dim_products,
                   runs, dim_dfs, batch, loopVars, exc, histVars>>
    /\ UNCHANGED sideVars

\* the same with the restore failing: its exception is passed over
RowsDoneRestoreFails ==
    /\ pc = "rows"
    /\ row_i > Len(batch)
    /\ statements' = Append(statements, "CHECK")
    /\ pending' = <<>>
    /\ outcome' = "rows_done"
    /\ pc' = "finally"
    /\ UNCHANGED <<extractVars, src_customers, src_products, dim_customers, dim_products,
                   fact, constraints, runs, dim_dfs, batch, loopVars, exc, histVars>>
    /\ UNCHANGED sideVars

\* finally: restore the checks; load_fact_sales returns
Finally ==
    /\ pc = "finally"
    /\ statements' = FinallyRestore(statements)
    /\ constraints' = IF statements' # statements THEN "CHECK" ELSE constraints
    /\ pc' = "run_end"
    /\ UNCHANGED <<extractVars, src_customers, src_products, dim_customers, dim_products,
                   fact, pending, runs, dim_dfs, batch, loopVars, exc, outcome, histVars>>
    /\ UNCHANGED sideVars

\* finally, with the restore failing: passed over
FinallyFails ==
    /\ pc = "finally"
    /\ statements' = FinallyRestore(statements)
    /\ pc' = "run_end"
    /\ UNCHANGED <<extractVars, src_customers, src_products, dwVars, runs, dim_dfs, batch,
                   loopVars, exc, outcome, histVars>>
    /\ UNCHANGED sideVars

\* run_etl ends: it re-raises what reached it and closes the connections;
\* the frames and counters of the run are gone
RunEtlEnd ==
    /\ pc = "run_end"
    /\ pending' = <<>>
    /\ runs' = runs + 1
    /\ loaded' = [outcome |-> outcome, rows |-> TagRows(fact)]
    /\ dim_dfs' = NoLookups
    /\ batch' = <<>>
    /\ row_i' = 0
    /\ failed_rows' = <<>>
    /\ success_count' = 0
    /\ statements' = <<>>
    /\ exc' = "none"
    /\ outcome' = "none"
    /\ fact_before' = fact
    /\ constraints_before' = constraints
    /\ pc' = "idle"
    /\ UNCHANGED <<extractVars, src_customers, src_products, dim_customers, dim_products,
                   fact, constraints>>
    /\ UNCHANGED sideVars

Next ==
    \/ RunEtl
    \/ ExtractSourceData
    \/ LoadDimLeading
    \/ LoadDimProducts
    \/ LoadDimProductsFails
    \/ LoadDimCustomers
    \/ LoadDimCustomersFails
    \/ LoadFactEnter
    \/ Cleanup
    \/ CleanupFails
    \/ ValidatePasses
    \/ ValidateRejects
    \/ Relax
    \/ RelaxFails
    \/ CursorFails
    \/ BulkInsert
    \/ InsertRaises
    \/ BulkInsertFails
    \/ RowInsert
    \/ RowInsertFails
    \/ RowCommitFails
    \/ RowCursorFails
    \/ RowsDone
    \/ RowsDoneRestoreFails
    \/ Finally
    \/ FinallyFails
    \/ RunEtlEnd

Spec == Init /\ [][Next]_vars

-----------------------------------------------------------------------------
(* process_and_load_dim called again and again on one dimension table.     *)
(* A call that fails leaves the table as it was: its insert is never       *)
(* committed.                                                              *)

MaxCalls == 3

\* everything the calls on the single dimension leave alone
pipeVars == <<extractVars, src_customers, src_products, dwVars, runVars, histVars>>

\* source frames with a text key (customer, product, warehouse, country,
\* currency) and with a numeric key (OSLP.SlpCode)
TextSources ==
    { <<[key |-> "C1", name |-> "n1"]>>,
      <<[key |-> "C1", name |-> "n3"], [key |-> "C2", name |-> "n2"]>>,
      <<[key |-> " C1", name |-> "n1"], [key |-> "C1", name |-> "n1"]>>,
      <<[key |-> "c1 ", name |-> "n1"], [key |-> "C1", name |-> "n1"]>> }
NumberSources ==
    { <<[key |-> 5, name |-> "n1"]>>,
      <<[key |-> 5, name |-> "n1"], [key |-> 7, name |-> "n2"]>> }
DimSources(kind) == IF kind = "number" THEN NumberSources ELSE TextSources

InitDim ==
    /\ dim_table = DimTable(<<>>, 1)
    /\ dim_kind \in {"text", "number"}
    /\ dim_ci \in BOOLEAN
    /\ dim_source \in DimSources(dim_kind)
    /\ dim_calls = 0
    /\ dim_last = NoCall
    /\ dim_prev = NoCall
    /\ race_pc = <<"done", "done">>
    /\ race_batch = <<<<>>, <<>>>>
    /\ race_last = 0
    /\ df_sales = <<>>
    /\ df_credits = <<>>
    /\ base_refs_available = TRUE
    /\ tieRank = <<>>
    /\ remaining_qty = <<>>
    /\ work_credits = <<>>
    /\ idx = 0
    /\ epc = "query"
    /\ sales_fact = <<>>
    /\ src_customers = <<>>
    /\ src_products = <<>>
    /\ dim_customers = DimTable(<<>>, 1)
    /\ dim_products = DimTable(<<>>, 1)
    /\ fact = <<>>
    /\ pending = <<>>
    /\ constraints = "CHECK"
    /\ pc = "idle"
    /\ runs = 0
    /\ dim_dfs = NoLookups
    /\ batch = <<>>
    /\ row_i = 0
    /\ failed_rows = <<>>
    /\ success_count = 0
    /\ statements = <<>>
    /\ exc = "none"
    /\ outcome = "none"
    /\ fact_before = <<>>
    /\ constraints_before = "CHECK"
    /\ loaded = [outcome |-> "none", rows |-> <<>>]

\* the executemany calls of one call of process_and_load_dim: one when the
\* payload is not empty, and none after it has raised
ExecuteManyCalls(payload) == IF payload = <<>> THEN 0 ELSE 1

\* the call inserts the new rows, commits and returns the lookup frame
ProcessAndLoadDim ==
    /\ dim_calls < MaxCalls
    /\ ~ViolatesUnique(dim_table, dim_source, "key", dim_kind, dim_ci)
    /\ dim_table' = InsertDimOfKind(dim_table, dim_source, "key", dim_kind)
    /\ dim_last' = [source |-> dim_source, before |-> dim_table.rows,
                    inserted |-> Len(NewRowsOfKind(dim_table, dim_source, "key", dim_kind)),
                    attempts |->
                        ExecuteManyCalls(NewRowsOfKind(dim_table, dim_source, "key", dim_kind)),
                    exc |-> "none", lookup |-> dim_table'.rows]
    /\ dim_prev' = dim_last
    /\ dim_calls' = dim_calls + 1
    /\ UNCHANGED <<dim_kind, dim_ci, dim_source, raceVars, pipeVars>>

\* executemany raises on the UNIQUE constraint; IDENTITY values may be used up
ProcessAndLoadDimFails ==
    /\ dim_calls < MaxCalls
    /\ ViolatesUnique(dim_table, dim_source, "key", dim_kind, dim_ci)
    /\ \E k \in {0, Len(NewRowsOfKind(dim_table, dim_source, "key", dim_kind))} :
          dim_table' = [dim_table EXCEPT !.ident = @ + k]
    /\ dim_last' = [source |-> dim_source, before |-> dim_table.rows, inserted |-> 0,
                    attempts |->
                        ExecuteManyCalls(NewRowsOfKind(dim_table, dim_source, "key", dim_kind)),
                    exc |-> "pyodbc.IntegrityError", lookup |-> <<>>]
    /\ dim_prev' = dim_last
    /\ dim_calls' = dim_calls + 1
    /\ UNCHANGED <<dim_kind, dim_ci, dim_source, raceVars, pipeVars>>

\* the source master table changes between two calls
SourceChanges ==
    /\ dim_calls < MaxCalls
    /\ dim_source' \in DimSources(dim_kind) \ {dim_source}
    /\ UNCHANGED <<dim_table, dim_kind, dim_ci, dim_calls, dim_last, dim_prev, raceVars,
                   pipeVars>>

NextDim ==
    \/ ProcessAndLoadDim
    \/ ProcessAndLoadDimFails
    \/ SourceChanges

SpecDim == InitDim /\ [][NextDim]_vars

-----------------------------------------------------------------------------
(* load_fact_sales resolving the keys of a consolidated frame against the   *)
(* lookups load_dimensions returned.  The call starts after its delete;     *)
(* the lookups are what the dimension tables can hold.                      *)

MaxLines == 2

\* a row of the consolidated frame: the columns the groupby keeps
NetLine(g, card, item, slp, cur, docnum, qty, total) ==
    [index |-> g, ItemCode |-> item, CardCode |-> card, SlpCode |-> slp, DocCur |-> cur,
     DocDate |-> D1, Quantity |-> qty, LineTotal |-> total, DocNum |-> docnum]

NetLinePool ==
    { NetLine(1, "C1", "I1", 1, "USD", 101, 4000, 40000),
      NetLine(2, "C1", "I2", 1, " col ", 105, 4000, 40000),
      NetLine(3, "C2", "I1", NullInt, "CRC", 107, 4000, 40000),
      NetLine(4, "C1", "I1", 2, "COL", 108, -3000, -30000),
      NetLine(5, "C1", "I1", 1, "EUR", 109, 4000, 40000),
      NetLine(6, "C1", "I1", 1, NoCurrency, 110, 4000, 40000) }

\* frames in index order
NetFrames ==
    { s \in SeqsNoDup(NetLinePool, MaxLines) :
        \A i, j \in DOMAIN s : i < j => s[i].index < s[j].index }

CustomerLookups ==
    { <<[id |-> 1, code |-> "C1", name |-> "n1"]>>,
      <<[id |-> 1, code |-> "C1", name |-> "n1"], [id |-> 2, code |-> "C2", name |-> "n2"]>>,
      <<[id |-> 1, code |-> " C1", name |-> "n1"], [id |-> 2, code |-> "C1", name |-> "n1"],
        [id |-> 3, code |-> "C2", name |-> "n2"]>> }

ProductLookups ==
    { <<>>,
      <<[id |-> 3, code |-> "I1", name |-> "n1"]>>,
      <<[id |-> 3, code |-> "I1", name |-> "n1"], [id |-> 2, code |-> "I9", name |-> "n9"]>>,
      <<[id |-> 3, code |-> "I1", name |-> "n1"], [id |-> 2, code |-> "I2", name |-> "n2"]>> }

SalespersonLookups ==
    { <<>>,
      <<[id |-> 1, code |-> "1", name |-> "s1"], [id |-> 2, code |-> "2", name |-> "s2"]>> }

WarehouseLookups ==
    { <<UnknownWarehouse>>,
      <<UnknownWarehouse, [id |-> 1, code |-> "W1", name |-> "w1"]>> }

InitResolve ==
    /\ sales_fact \in NetFrames
    /\ \E c \in CustomerLookups, p \in ProductLookups, sp \in SalespersonLookups,
          w \in WarehouseLookups :
          /\ dim_dfs = [customer |-> c, product |-> p, salesperson |-> sp,
                        warehouse |-> w, currency |-> CurrencyRows]
          /\ dim_customers = DimTable(c, Len(c) + 1)
          /\ dim_products = DimTable(p, 4)
    /\ fact \in { DeleteByTag(f) : f \in PriorFacts }
    /\ fact_before = fact
    /\ constraints_before = "CHECK"
    /\ loaded = [outcome |-> "none", rows |-> <<>>]
    /\ df_sales = <<>>
    /\ df_credits = <<>>
    /\ base_refs_available = TRUE
    /\ tieRank = <<>>
    /\ remaining_qty = <<>>
    /\ work_credits = <<>>
    /\ idx = 0
    /\ epc = "done"
    /\ src_customers = <<>>
    /\ src_products = <<>>
    /\ pending = <<>>
    /\ constraints = "CHECK"
    /\ pc = "validate"
    /\ runs = 0
    /\ batch = <<>>
    /\ row_i = 0
    /\ failed_rows = <<>>
    /\ success_count = 0
    /\ statements = <<"DELETE">>
    /\ exc = "none"
    /\ outcome = "entered"
    /\ SideIdle

NextResolve ==
    \/ ValidatePasses
    \/ ValidateRejects
    \/ Relax
    \/ BulkInsert

SpecResolve == InitResolve /\ [][NextResolve]_vars

-----------------------------------------------------------------------------
(* Two calls of load_fact_sales at once, each on its own connection, both   *)
(* going through without an error.  Each statement is committed on its own, *)
(* so a step of the model is one committed statement of one call.           *)

Runs == {1, 2}

\* the lookups both calls were given
RaceLookups ==
    [customer |-> <<[id |-> 1, code |-> "C1", name |-> "n1"],
                    [id |-> 2, code |-> "C2", name |-> "n2"]>>,
     product |-> <<[id |-> 3, code |-> "I1", name |-> "n1"],
                   [id |-> 2, code |-> "I2", name |-> "n2"]>>,
     salesperson |-> <<>>,
     warehouse |-> <<UnknownWarehouse>>,
     currency |-> CurrencyRows]

\* the batches a call can hold: the frame it extracted, resolved
RaceBatches ==
    { BuildFact(sf, RaceLookups) :
        sf \in { f \in NetFrames : f # <<>> /\ \A n \in DOMAIN f : f[n].index <= 4 } }

InitRace ==
    /\ race_pc = [i \in Runs |-> "cleanup"]
    /\ race_batch \in [Runs -> RaceBatches]
    /\ race_last = 0
    /\ fact \in PriorFacts
    /\ fact_before = fact
    /\ constraints = "CHECK"
    /\ constraints_before = "CHECK"
    /\ loaded = [outcome |-> "none", rows |-> <<>>]
    /\ dim_table = DimTable(<<>>, 1)
    /\ dim_kind = "text"
    /\ dim_ci = TRUE
    /\ dim_source = <<>>
    /\ dim_calls = 0
    /\ dim_last = NoCall
    /\ dim_prev = NoCall
    /\ df_sales = <<>>
    /\ df_credits = <<>>
    /\ base_refs_available = TRUE
    /\ tieRank = <<>>
    /\ remaining_qty = <<>>
    /\ work_credits = <<>>
    /\ idx = 0
    /\ epc = "done"
    /\ sales_fact = <<>>
    /\ src_customers = <<>>
    /\ src_products = <<>>
    /\ dim_customers = DimTable(RaceLookups.customer, 3)
    /\ dim_products = DimTable(RaceLookups.product, 4)
    /\ pending = <<>>
    /\ pc = "idle"
    /\ runs = 0
    /\ dim_dfs = RaceLookups
    /\ batch = <<>>
    /\ row_i = 0
    /\ failed_rows = <<>>
    /\ success_count = 0
    /\ statements = <<>>
    /\ exc = "none"
    /\ outcome = "none"

raceRest == <<extractVars, src_customers, src_products, dim_customers, dim_products,
              pending, pc, runs, dim_dfs, batch, row_i, failed_rows, success_count,
              exc, outcome, histVars, dimVars, race_batch>>

\* call i: DELETE ... WHERE source_system = 'DB_SALES'; commit
RaceCleanup(i) ==
    /\ race_pc[i] = "cleanup"
    /\ fact' = DeleteByTag(fact)
    /\ statements' = Append(statements, "DELETE")
    /\ race_pc' = [race_pc EXCEPT ![i] = "relax"]
    /\ UNCHANGED <<raceRest, constraints, race_last>>

\* call i: ALTER TABLE ... NOCHECK CONSTRAINT ALL; commit
RaceRelax(i) ==
    /\ race_pc[i] = "relax"
    /\ constraints' = "NOCHECK"
    /\ statements' = Append(statements, "NOCHECK")
    /\ race_pc' = [race_pc EXCEPT ![i] = "bulk"]
    /\ UNCHANGED <<raceRest, fact, race_last>>

\* call i: executemany of its batch; commit
RaceInsert(i) ==
    /\ race_pc[i] = "bulk"
    /\ fact' = CommitBulk(fact, race_batch[i])
    /\ statements' = Append(statements, "INSERT")
    /\ race_last' = i
    /\ race_pc' = [race_pc EXCEPT ![i] = "finally"]
    /\ UNCHANGED <<raceRest, constraints>>

\* call i: finally, the constraints are checked again
RaceFinally(i) ==
    /\ race_pc[i] = "finally"
    /\ constraints' = "CHECK"
    /\ statements' = FinallyRestore(statements)
    /\ race_pc' = [race_pc EXCEPT ![i] = "done"]
    /\ UNCHANGED <<raceRest, fact, race_last>>

NextRace ==
    \E i \in Runs :
        \/ RaceCleanup(i)
        \/ RaceRelax(i)
        \/ RaceInsert(i)
        \/ RaceFinally(i)

SpecRace == InitRace /\ [][NextRace]_vars

-----------------------------------------------------------------------------
(* Properties of the reconciliation *)

\* the reconciler has run (the links in work_credits are its own)
Reconciling == ~base_refs_available /\ epc \in {"resolve", "consolidate", "done"}

\* the credit-note lines linked to invoice line i
LinkedTo(i) ==
    { j \in DOMAIN work_credits :
        /\ work_credits[j].BaseDocEntry = df_sales[i].DocEntry
        /\ work_credits[j].BaseLine = df_sales[i].LineNum }

RECURSIVE SumQty(_)
SumQty(J) ==
    IF J = {} THEN 0
    ELSE LET j == CHOOSE x \in J : TRUE IN
         Abs(work_credits[j].Quantity) + SumQty(J \ {j})

-----------------------------------------------------------------------------
(* Properties of the netting *)

\* the grouped frame that the netting step builds from the current frames
Grouped == GroupNet(df_sales \o work_credits)

\* the position in Grouped of the consolidated row of source row r
GroupOf(r) == CHOOSE g \in DOMAIN Grouped :
    <<Grouped[g].DocEntry, Grouped[g].LineNum, Grouped[g].ItemCode,
      Grouped[g].CardCode, Grouped[g].SlpCode, Grouped[g].DocCur>> = GroupKey(r)

RECURSIVE SumField(_, _)
SumField(J, f) ==
    IF J = {} THEN 0
    ELSE LET j == CHOOSE x \in J : TRUE IN
         (IF f = "Quantity" THEN work_credits[j].Quantity ELSE work_credits[j].LineTotal)
         + SumField(J \ {j}, f)

\* no credit-note line that is not linked to invoice line i falls into its group
NoStrayCredit(i) ==
    \A j \in DOMAIN work_credits :
        GroupKey(work_credits[j]) = GroupKey(df_sales[i]) => j \in LinkedTo(i)

\* C9: every return the reconciler links to an invoice line is summed into
\* that line's consolidated row: the row's quantity is the sale's quantity
\* plus the quantities of the linked returns, and likewise for the amount.
C9_LinkedReturnsNetted ==
    Reconciling /\ epc = "done" =>
        \A i \in DOMAIN df_sales :
            NoStrayCredit(i) =>
                /\ \A j \in LinkedTo(i) : GroupOf(work_credits[j]) = GroupOf(df_sales[i])
                /\ Grouped[GroupOf(df_sales[i])].Quantity =
                       df_sales[i].Quantity + SumField(LinkedTo(i), "Quantity")
                /\ Grouped[GroupOf(df_sales[i])].LineTotal =
                       df_sales[i].LineTotal + SumField(LinkedTo(i), "LineTotal")

\* the rows of sales_fact that come from group g
RowsOfGroup(g) == { n \in DOMAIN sales_fact : sales_fact[n].index = g }

\* C10: a consolidated group yields no fact candidate exactly when its net
\* quantity and its net amount are both within epsilon of zero; a group that
\* is kept yields one candidate, with the group's net quantity and amount.
C10_ZeroGroupsDropped ==
    epc = "done" =>
        \A g \in DOMAIN Grouped :
            /\ RowsOfGroup(g) = {} <=>
                   (Abs(Grouped[g].Quantity) < QtyZeroEps /\ Abs(Grouped[g].LineTotal) < AmtZeroEps)
            /\ \A n \in RowsOfGroup(g) :
                   /\ sales_fact[n].Quantity = Grouped[g].Quantity
                   /\ sales_fact[n].LineTotal = Grouped[g].LineTotal
            /\ Cardinality(RowsOfGroup(g)) <= 1

\* one sale is fully offset by its linked return and yields no candidate,
\* another nets to a quantity within epsilon of zero with an amount that is
\* not, and is kept
C10_Witness ==
    /\ epc = "done"
    /\ Reconciling
    /\ \E i \in DOMAIN df_sales :
        /\ LinkedTo(i) # {}
        /\ Grouped[GroupOf(df_sales[i])].Quantity = 0
        /\ Grouped[GroupOf(df_sales[i])].LineTotal = 0
        /\ RowsOfGroup(GroupOf(df_sales[i])) = {}
    /\ \E i \in DOMAIN df_sales :
        /\ LinkedTo(i) # {}
        /\ Abs(Grouped[GroupOf(df_sales[i])].Quantity) < QtyZeroEps
        /\ Abs(Grouped[GroupOf(df_sales[i])].LineTotal) >= AmtZeroEps
        /\ RowsOfGroup(GroupOf(df_sales[i])) # {}

\* the credit-note lines that went through matching and were left without a
\* base invoice
UnmatchedLines ==
    { j \in DOMAIN work_credits :
        ~IsNoOpLine(work_credits[j]) /\ work_credits[j].BaseDocEntry = NullInt }

\* C11: a return line the reconciler leaves unmatched shares its consolidated
\* group with no invoice line, and yields a fact candidate with its own date,
\* quantity and amount.
C11_UnmatchedStandsAlone ==
    Reconciling /\ epc = "done" =>
        \A j \in UnmatchedLines :
            /\ \A i \in DOMAIN df_sales : GroupKey(df_sales[i]) # GroupKey(work_credits[j])
            /\ \E n \in RowsOfGroup(GroupOf(work_credits[j])) :
                   /\ sales_fact[n].DocDate = work_credits[j].DocDate
                   /\ sales_fact[n].Quantity = work_credits[j].Quantity
                   /\ sales_fact[n].LineTotal = work_credits[j].LineTotal

\* C12: the count the reconciler reports is the number of return lines that
\* went through matching and were left without a base invoice; linked lines
\* and skipped lines are not counted.
C12_UnmatchedCount ==
    Reconciling /\ epc \in {"consolidate", "done"} /\ remaining_qty # <<>> =>
        Unmatched(work_credits) = Cardinality(UnmatchedLines)


-----------------------------------------------------------------------------
(* Properties of the load *)

\* load_fact_sales is running, or has just returned or raised
InLoader ==
    \/ pc \in {"cleanup", "validate", "relax", "bulk", "rows", "finally"}
    \/ pc = "run_end" /\ outcome # "none"

\* load_fact_sales has just returned or raised
AtExit == pc = "run_end" /\ outcome # "none"

Issued(stmt) == \E n \in DOMAIN statements : statements[n] = stmt

\* C1: whatever way a call of load_fact_sales goes, the fact rows under
\* another provenance tag are the ones that were there when it was entered.
C1_OtherTagsUntouched == InLoader => OtherRows(fact) = OtherRows(fact_before)

\* the delete has removed DB_SALES rows from a table that also holds others
C1_Witness ==
    /\ AtExit
    /\ Issued("DELETE")
    /\ OtherRows(fact_before) # <<>>
    /\ TagRows(fact_before) # <<>>
    /\ fact # fact_before

\* C2: when two runs in a row over the same source both load their batch,
\* the DB_SALES rows after the second are those after the first, not doubled.
C2_Idempotent ==
    (AtExit /\ outcome = "loaded" /\ loaded.outcome = "loaded")
        => TagRows(fact) = loaded.rows

C2_Witness ==
    /\ AtExit
    /\ runs >= 1
    /\ outcome = "loaded"
    /\ loaded.outcome = "loaded"
    /\ loaded.rows # <<>>

\* C3: a call whose bulk insert is committed leaves under DB_SALES exactly
\* the rows of its batch, whatever rows earlier runs left under that tag.
C3_ExactlyThisBatch == (AtExit /\ outcome = "loaded") => TagRows(fact) = batch

\* the run before stopped part-way through the per-row inserts
C3_Witness ==
    /\ AtExit
    /\ outcome = "loaded"
    /\ loaded.outcome = "rows_done"
    /\ TagRows(fact_before) # <<>>
    /\ TagRows(fact_before) # batch

\* the batch has been built and a required column of one of its rows is null
BatchHasNull == \E n \in DOMAIN batch : NullRequired(batch[n])

\* every row of f is a row of g
NoNewRows(f, g) == \A i \in DOMAIN f : \E j \in DOMAIN g : f[i] = g[j]

\* C4: a batch with a null required field ends the call with the validation
\* error, with no insert statement issued and no row of the batch stored.
C4_ValidationGate ==
    BatchHasNull =>
        /\ pc = "run_end"
        /\ exc = "ValueError"
        /\ ~Issued("INSERT")
        /\ pending = <<>>
        /\ NoNewRows(fact, fact_before)

\* rejected batch that also holds a row with nothing missing
C4_Witness ==
    /\ AtExit
    /\ BatchHasNull
    /\ \E n \in DOMAIN batch : ~NullRequired(batch[n])

\* C5: when validation rejects the batch the fact table is as it was when
\* load_fact_sales was entered.
C5_NoWriteOnReject == (AtExit /\ outcome = "rejected") => fact = fact_before

C7_BulkFailureRaised ==
    (AtExit /\ outcome = "rows_done") =>
        /\ row_i = Len(batch) + 1
        /\ success_count + Len(failed_rows) = Len(batch)
        /\ exc = "RuntimeError"


-----------------------------------------------------------------------------
(* Properties of the dimension loads *)

\* the natural-key to surrogate-key pairs of a lookup frame
KeyMap(lookup) == { <<lookup[i].code, lookup[i].id>> : i \in DOMAIN lookup }

\* the last two calls had the same source and the first of them succeeded
CalledTwiceSameSource ==
    dim_calls >= 2 /\ dim_last.source = dim_prev.source /\ dim_prev.exc = "none"

\* C13: a second call of process_and_load_dim with the source of the first
\* inserts no row, raises nothing and returns the key mapping the first
\* returned, for text keys and for numeric keys.
C13_DimIdempotent ==
    CalledTwiceSameSource =>
        /\ dim_last.inserted = 0
        /\ dim_last.exc = "none"
        /\ KeyMap(dim_last.lookup) = KeyMap(dim_prev.lookup)

\* C14: every entry the table held before the last call is still there,
\* at its place, with its surrogate key and its attributes.
C14_EntriesKept ==
    dim_calls >= 1 =>
        /\ Len(dim_table.rows) >= Len(dim_last.before)
        /\ \A i \in DOMAIN dim_last.before : dim_table.rows[i] = dim_last.before[i]

\* a call added rows while its source gave another name to a key already held
C14_Witness ==
    /\ dim_calls >= 2
    /\ dim_last.inserted > 0
    /\ \E i \in DOMAIN dim_last.before : \E n \in DOMAIN dim_last.source :
          /\ StoredKey(dim_kind, dim_last.source[n].key) = dim_last.before[i].code
          /\ dim_last.source[n].name # dim_last.before[i].name

\* C15: no two entries of a dimension with a text key have keys that are
\* equal after trimming and case-folding.
C15_NormalizedKeysUnique ==
    dim_kind = "text" =>
        \A i, j \in DOMAIN dim_table.rows :
            i # j => Normalize(dim_table.rows[i].code) # Normalize(dim_table.rows[j].code)


-----------------------------------------------------------------------------
(* Properties of the key resolution *)

\* load_fact_sales has built its batch
BatchBuilt == pc \in {"relax", "bulk", "finally", "run_end"}

\* the rows of the batch that come from the line with document number doc
RowsOfDoc(doc) == { n \in DOMAIN batch : batch[n].source_doc_id = doc }

\* C16: the consolidated lines carry no warehouse code, and every fact row
\* built from them, and every row then written, has warehouse key 0.
C16_NoWarehouseIsUnknown ==
    BatchBuilt =>
        /\ \A n \in DOMAIN batch : batch[n].idWarehouse = 0
        /\ pc = "finally" => \A n \in DOMAIN TagRows(fact) : TagRows(fact)[n].idWarehouse = 0

\* rows written while the warehouse lookup holds more than the unknown entry
C16_Witness ==
    /\ pc = "finally"
    /\ TagRows(fact) # <<>>
    /\ Len(dim_dfs.warehouse) > 1
    /\ \A n \in DOMAIN sales_fact : "WhsCode" \notin DOMAIN sales_fact[n]

\* the key the currency lookup gives for a code
KeyOfCode(dim, code) ==
    LET hits == SelectSeq(dim, LAMBDA d : d.code = code)
    IN  IF hits = <<>> THEN NullInt ELSE hits[1].id

\* the line's currency is COL in some case, with or without blanks around it
IsColAlias(c) == c \in {"COL", "col", " col "}

\* C17: a row built from a line whose currency is COL, in any case and with
\* surrounding blanks, has the currency key of CRC.
C17_ColIsCrc ==
    BatchBuilt =>
        \A l \in DOMAIN sales_fact :
            IsColAlias(sales_fact[l].DocCur) =>
                \A n \in RowsOfDoc(sales_fact[l].DocNum) :
                    /\ batch[n].idCurrency = KeyOfCode(dim_dfs.currency, "CRC")
                    /\ batch[n].idCurrency # NullInt

\* a batch with a row from ' col ' and a row from 'COL', both keyed as CRC
C17_Witness ==
    /\ pc = "finally"
    /\ \E l, m \in DOMAIN sales_fact :
          /\ sales_fact[l].DocCur = " col "
          /\ sales_fact[m].DocCur = "COL"
          /\ \E n \in RowsOfDoc(sales_fact[l].DocNum), k \in RowsOfDoc(sales_fact[m].DocNum) :
                batch[n].idCurrency = 1 /\ batch[k].idCurrency = 1

\* C18: every line of the frame has a row in the batch, and every product
\* key written to the fact table is the key of an entry of DIM_PRODUCTS.
C18_ProductKeyExists ==
    pc = "finally" =>
        /\ \A l \in DOMAIN sales_fact : RowsOfDoc(sales_fact[l].DocNum) # {}
        /\ \A n \in DOMAIN TagRows(fact) :
              \E i \in DOMAIN dim_products.rows :
                  dim_products.rows[i].id = TagRows(fact)[n].idProduct

\* C19: the batch has one row per consolidated line, in the order of the
\* lines, each tagged DB_SALES, whatever the lookups hold.
C19_OneRowPerLine ==
    BatchBuilt =>
        /\ Len(batch) = Len(sales_fact)
        /\ \A n \in DOMAIN batch :
              /\ batch[n].source_system = SOURCE_SYSTEM_DB
              /\ n \in DOMAIN sales_fact => batch[n].source_doc_id = sales_fact[n].DocNum


-----------------------------------------------------------------------------
(* Properties of concurrent loads *)

\* C20: when two concurrent calls have both gone through, the DB_SALES rows
\* of the fact table are the batch of the call whose insert was committed
\* last, and never rows of both batches.
C20_LastInsertWins ==
    (\A i \in Runs : race_pc[i] = "done") /\ race_last # 0 =>
        TagRows(fact) = race_batch[race_last]


-----------------------------------------------------------------------------
(* Properties of the order of the stages *)

\* load_fact_sales has been called in this run
FactStageBegun == outcome # "none" \/ statements # <<>> \/ batch # <<>>

\* a dimension load of this run has raised
DimensionFailed == pc = "run_end" /\ outcome = "none" /\ exc # "none"

\* C21: the fact stage of a run begins only after every dimension load of the
\* run has returned its lookup without an error; when a dimension load
\* raises, run_etl ends with the error, no statement of the fact stage is
\* issued and the fact table is as the run found it.
C21_DimensionsFirst ==
    /\ FactStageBegun =>
          /\ dim_dfs.warehouse = <<UnknownWarehouse>>
          /\ dim_dfs.currency = CurrencyRows
          /\ dim_dfs.product = dim_products.rows
          /\ dim_dfs.customer = dim_customers.rows
          /\ pc \notin {"idle", "extract", "dim_leading", "dim_products", "dim_customers"}
    /\ DimensionFailed =>
          /\ exc = "pyodbc.Error"
          /\ ~FactStageBegun
          /\ fact = fact_before

\* a dimension load fails in a run that follows a loaded one
C21_Witness ==
    /\ DimensionFailed
    /\ loaded.outcome = "loaded"
    /\ TagRows(fact) # <<>>


-----------------------------------------------------------------------------
(* Properties of a failing dimension load *)

\* C22: a call of process_and_load_dim that ends with the error of its batch
\* insert has issued that batch insert at least twice.
C22_InsertRetried == dim_last.exc # "none" => dim_last.attempts >= 2


-----------------------------------------------------------------------------
(* Properties of the consolidated rows *)

\* the key of a grouped row
KeyOfGroup(g) ==
    <<Grouped[g].DocEntry, Grouped[g].LineNum, Grouped[g].ItemCode,
      Grouped[g].CardCode, Grouped[g].SlpCode, Grouped[g].DocCur>>

\* the extracted lines summed into grouped row g
LinesOfGroup(g) ==
    SelectSeq(df_sales \o work_credits, LAMBDA r : GroupKey(r) = KeyOfGroup(g))

\* C23: the date of every consolidated row is the earliest of the dates the
\* lines summed into it had in the source, also when one of them is a return
\* linked to a sale dated after it.
C23_EarliestOriginalDate ==
    epc = "done" =>
        \A n \in DOMAIN sales_fact :
            LET rows == LinesOfGroup(sales_fact[n].index)
            IN  sales_fact[n].DocDate = MinDate([i \in DOMAIN rows |-> rows[i].DocDate])


-----------------------------------------------------------------------------
(* Properties of the per-row fallback *)

\* the per-row loop of this call has ended
FallbackEnded ==
    /\ pc \in {"finally", "run_end"}
    /\ outcome \in {"rows_done", "rows_aborted"}

\* C24: while the per-row fallback runs, the rows before the current one have
\* each been tried once and recorded as a success or as a failure, and when
\* it has ended every row of the batch has been tried: no row is left out,
\* and successes plus failures is the size of the batch.
C24_EveryRowTried ==
    /\ pc = "rows" =>
          /\ success_count + Len(failed_rows) = row_i - 1
          /\ \A a, b \in DOMAIN failed_rows : a < b => failed_rows[a] < failed_rows[b]
    /\ FallbackEnded =>
          /\ row_i = Len(batch) + 1
          /\ success_count + Len(failed_rows) = Len(batch)


-----------------------------------------------------------------------------
(* Properties of the choice of the invoice line *)

\* this step of the loop links the credit-note line it handles
LinkStep == InLoop /\ work_credits'[idx].BaseDocEntry # NullInt

\* the invoice line the step links it to
ChosenSale ==
    CHOOSE i \in DOMAIN df_sales :
        /\ df_sales[i].DocEntry = work_credits'[idx].BaseDocEntry
        /\ df_sales[i].LineNum = work_credits'[idx].BaseLine

\* the eligible invoice lines when the step starts, and those of them dated
\* on or before the credit note
Eligible == Candidates(df_sales, remaining_qty, work_credits[idx])
EligiblePrior ==
    { i \in Eligible : DateLE(df_sales[i].DocDate, work_credits[idx].DocDate) }

\* the choice among the lines for which Enough holds
LatestPriorElseEarliest(Enough(_)) ==
    LET c == ChosenSale IN
    /\ c \in Eligible
    /\ Enough(c)
    /\ EligiblePrior # {} =>
          /\ c \in EligiblePrior
          /\ \A k \in EligiblePrior :
                Enough(k) => DateLE(df_sales[k].DocDate, df_sales[c].DocDate)
    /\ EligiblePrior = {} =>
          \A k \in Eligible : Enough(k) => DateLE(df_sales[c].DocDate, df_sales[k].DocDate)

PointedAt ==
    { i \in DOMAIN df_sales :
        /\ df_sales[i].DocEntry = work_credits'[idx].BaseDocEntry
        /\ df_sales[i].LineNum = work_credits'[idx].BaseLine }

\* C26: a link joins the return to one invoice line, which has the return's
\* customer, item and currency, its salesperson when the return has one, and
\* a unit price within the tolerance of the return's unit price.
C26_LinkMatchesKeys ==
    [][LinkStep =>
        /\ Cardinality(PointedAt) = 1
        /\ \A i \in PointedAt :
              /\ df_sales[i].CardCode = work_credits[idx].CardCode
              /\ df_sales[i].ItemCode = work_credits[idx].ItemCode
              /\ df_sales[i].DocCur = work_credits[idx].DocCur
              /\ work_credits[idx].SlpCode # NullInt =>
                    df_sales[i].SlpCode = work_credits[idx].SlpCode
              /\ PriceWithinTol(df_sales[i], work_credits[idx])
              /\ work_credits'[idx].BaseDocNum = df_sales[i].DocNum]_vars

\* a return with a salesperson is linked while an invoice line of the same
\* customer, item and currency but of another salesperson had quantity left
C26_Witness ==
    /\ Reconciling
    /\ remaining_qty # <<>>
    /\ \E j \in DOMAIN work_credits, i, k \in DOMAIN df_sales :
          /\ j \in LinkedTo(i)
          /\ work_credits[j].SlpCode # NullInt
          /\ df_sales[k].SlpCode # work_credits[j].SlpCode
          /\ df_sales[k].CardCode = work_credits[j].CardCode
          /\ df_sales[k].ItemCode = work_credits[j].ItemCode
          /\ df_sales[k].DocCur = work_credits[j].DocCur
          /\ remaining_qty[k] = df_sales[k].Quantity
          /\ remaining_qty[k] >= QtyNeeded(work_credits[j])


-----------------------------------------------------------------------------
(* Properties of the lookups load_dimensions returns *)

\* the lookup has an entry for the key, compared as the loader compares keys
HasEntry(lookup, k) == \E i \in DOMAIN lookup : Normalize(lookup[i].code) = Normalize(k)

\* C27: when load_dimensions has returned, every customer code and every item
\* code of the source masters has an entry in the lookup of its dimension,
\* also when two items carry the same name.
C27_EveryKeyMapped ==
    pc = "load_fact" =>
        /\ \A n \in DOMAIN src_customers : HasEntry(dim_dfs.customer, src_customers[n].CardCode)
        /\ \A n \in DOMAIN src_products : HasEntry(dim_dfs.product, src_products[n].ItemCode)


-----------------------------------------------------------------------------
(* Properties of the totals *)

\* the sum of field f over the rows of df of one customer, item and currency
TotalOf(df, f, card, item, cur) ==
    LET rows == SelectSeq(df, LAMBDA r :
                    r.CardCode = card /\ r.ItemCode = item /\ r.DocCur = cur)
    IN  SumSeq([i \in DOMAIN rows |-> rows[i][f]])

\* the customers, items and currencies of the extracted lines
Extracted == df_sales \o df_credits
TotalKeys ==
    { <<Extracted[i].CardCode, Extracted[i].ItemCode, Extracted[i].DocCur>> :
        i \in DOMAIN Extracted }

-----------------------------------------------------------------------------
(* Properties of the remaining quantities *)

\* C29: a pass of the loop over one credit-note line lowers the remaining
\* quantity of the invoice line it links the return to by the return's
\* quantity, not below 0, and leaves every other remaining quantity as it
\* was; a pass that skips the line or finds no match changes none, and no
\* remaining quantity grows.
C29_OnlyLinkedLineConsumed ==
    [][InLoop =>
        /\ DOMAIN remaining_qty' = DOMAIN remaining_qty
        /\ \A i \in DOMAIN remaining_qty : remaining_qty'[i] <= remaining_qty[i]
        /\ IF LinkStep
           THEN /\ remaining_qty'[ChosenSale] =
                       Max(0, remaining_qty[ChosenSale] - Abs(work_credits[idx].Quantity))
                /\ \A i \in DOMAIN remaining_qty \ {ChosenSale} :
                       remaining_qty'[i] = remaining_qty[i]
           ELSE remaining_qty' = remaining_qty]_vars

\* one return took the last of an invoice line, slightly more than was left,
\* while another invoice line kept all of its quantity
C29_Witness ==
    /\ Reconciling
    /\ remaining_qty # <<>>
    /\ \E i, k \in DOMAIN df_sales, j \in DOMAIN work_credits :
          /\ i # k
          /\ LinkedTo(i) = {j}
          /\ QtyNeeded(work_credits[j]) > df_sales[i].Quantity
          /\ remaining_qty[i] = 0
          /\ LinkedTo(k) = {}
          /\ remaining_qty[k] = df_sales[k].Quantity


-----------------------------------------------------------------------------
(* Properties of the amount columns *)

\* the currency texts that are USD, and those that are CRC or its alias COL,
\* once trimmed and upper-cased
IsUsd(c) == c = "USD"
IsCrc(c) == c = "CRC" \/ IsColAlias(c)

\* C30: a fact row has its line amount in total_usd exactly when the line's
\* currency is USD and in total_crc exactly when it is CRC or COL; a row in
\* another currency or in none has both columns null, and no row has both set.
C30_OneAmountColumn ==
    BatchBuilt =>
        \A l \in DOMAIN sales_fact :
            \A n \in RowsOfDoc(sales_fact[l].DocNum) :
                /\ batch[n].total_usd =
                      (IF IsUsd(sales_fact[l].DocCur) THEN sales_fact[l].LineTotal ELSE NullInt)
                /\ batch[n].total_crc =
                      (IF IsCrc(sales_fact[l].DocCur) THEN sales_fact[l].LineTotal ELSE NullInt)
                /\ batch[n].total_usd = NullInt \/ batch[n].total_crc = NullInt

\* a batch with a row in a currency that is neither USD nor CRC, or in no
\* currency, next to a row in USD or CRC
C30_Witness ==
    /\ pc = "finally"
    /\ \E n, k \in DOMAIN batch :
          /\ batch[n].total_usd = NullInt
          /\ batch[n].total_crc = NullInt
          /\ batch[k].total_usd # NullInt \/ batch[k].total_crc # NullInt
    /\ \E l \in DOMAIN sales_fact : sales_fact[l].DocCur \in {"EUR", NoCurrency}

=============================================================================
